---- MODULE Spec2Model ----
(***************************************************************************)
(* DPIA bot: the document pipeline of dpia_bot.py (command-line entry      *)
(* point) and app_ui.py (Streamlit entry point).                           *)
(*                                                                         *)
(* Text is a sequence of tokens.  The characters the code splits or strips *)
(* on (newline, space, pipe) are tokens of their own; every other token is *)
(* an opaque run of characters holding none of them.  A substring test of  *)
(* the code is a contiguous-subsequence test on tokens.                    *)
(***************************************************************************)
EXTENDS Integers, Sequences, FiniteSets, TLC

NL == "\n"
SP == " "
PIPE == "|"

IsSpace(t) == t \in {NL, SP}

\* Python: sub in s
Contains(s, sub) ==
    \E i \in 0..(Len(s) - Len(sub)) : SubSeq(s, i + 1, i + Len(sub)) = sub

\* the first position from `from` on at which sub occurs in s; 0 when none
Find(s, sub, from) ==
    IF \E k \in from..(Len(s) - Len(sub) + 1) : SubSeq(s, k, k + Len(sub) - 1) = sub
    THEN CHOOSE k \in from..(Len(s) - Len(sub) + 1) :
             /\ SubSeq(s, k, k + Len(sub) - 1) = sub
             /\ \A j \in from..(k - 1) : SubSeq(s, j, j + Len(sub) - 1) # sub
    ELSE 0

\* Python: s.startswith(p)
StartsWith(s, p) == Len(p) <= Len(s) /\ SubSeq(s, 1, Len(p)) = p

RECURSIVE LStrip(_)
LStrip(s) == IF s # <<>> /\ IsSpace(Head(s)) THEN LStrip(Tail(s)) ELSE s

RECURSIVE RStrip(_)
RStrip(s) ==
    IF s # <<>> /\ IsSpace(s[Len(s)]) THEN RStrip(SubSeq(s, 1, Len(s) - 1)) ELSE s

\* Python: s.strip()
Strip(s) == RStrip(LStrip(s))

\* Python: s.split(sep), sep non-empty: leftmost non-overlapping matches,
\* empty pieces kept.
RECURSIVE SplitFrom(_, _, _)
SplitFrom(s, sep, from) ==
    IF Find(s, sep, from) = 0 THEN <<SubSeq(s, from, Len(s))>>
    ELSE <<SubSeq(s, from, Find(s, sep, from) - 1)>>
             \o SplitFrom(s, sep, Find(s, sep, from) + Len(sep))

Split(s, sep) == SplitFrom(s, sep, 1)

\* Python: sep.join(parts)
RECURSIVE Join(_, _)
Join(parts, sep) ==
    IF parts = <<>> THEN <<>>
    ELSE IF Len(parts) = 1 THEN parts[1]
    ELSE parts[1] \o sep \o Join(Tail(parts), sep)

\* Python: piece * n
RECURSIVE Repeat(_, _)
Repeat(piece, n) == IF n <= 0 THEN <<>> ELSE piece \o Repeat(piece, n - 1)

RECURSIVE Flatten(_)
Flatten(ss) == IF ss = <<>> THEN <<>> ELSE Head(ss) \o Flatten(Tail(ss))

(***************************************************************************)
(* Paths.  A path is a sequence of tokens: "/" separates directories, a    *)
(* token that starts with "." holds exactly that one dot, and no other     *)
(* token holds a dot.                                                      *)
(***************************************************************************)
SEP == "/"
DotTokens == {".docx", ".DOCX", ".xlsx", ".xls", ".md", ".txt", ".pdf", ".env"}

Lower(t) == IF t = ".DOCX" THEN ".docx" ELSE t

LowerAll(p) == [i \in 1..Len(p) |-> Lower(p[i])]

Max(S) == CHOOSE x \in S : \A y \in S : y <= x

\* index of the last "/" of p, 0 when there is none
LastSep(p) == Max({0} \cup {i \in 1..Len(p) : p[i] = SEP})

\* index of the last dot of p, 0 when there is none
LastDot(p) == Max({0} \cup {i \in 1..Len(p) : p[i] \in DotTokens})

\* os.path.splitext: the extension starts at the last dot of the last
\* component, unless that dot leads the component.
SplitExtAt(p) ==
    IF LastDot(p) > LastSep(p) + 1 THEN LastDot(p) ELSE Len(p) + 1

SplitExt(p) ==
    <<SubSeq(p, 1, SplitExtAt(p) - 1), SubSeq(p, SplitExtAt(p), Len(p))>>

\* os.path.basename
Basename(p) == SubSeq(p, LastSep(p) + 1, Len(p))

get_file_extension(filepath) == LowerAll(SplitExt(filepath)[2])

REFERENCE_DPIA_FILENAME == <<"reference_dpia", ".txt">>
DOTENV == <<".env">>
TEMP_DIR == <<"tmp", SEP>>

Exists(fs, p) == p \in DOMAIN fs

\* the filesystem fs with content c written at path p
Written(fs, p, c) ==
    [q \in (DOMAIN fs) \cup {p} |-> IF q = p THEN c ELSE fs[q]]

(***************************************************************************)
(* File contents.  Every content is a record with a field kind:            *)
(*   "text"         text: the characters of a UTF-8 text file              *)
(*   "env"          key: the value a .env file gives GOOGLE_API_KEY        *)
(*   "docx"         paragraphs: <<[style, text]>>, tables: <<rows>>        *)
(*   "docx_pandoc"  md: the markdown pandoc rendered, reference_doc        *)
(*   "xlsx"         sheets: <<[name, rows]>>                               *)
(*   "bytes"        bytes no parser accepts                                *)
(***************************************************************************)
TextFile(t) == [kind |-> "text", text |-> t]
EnvFile(k) == [kind |-> "env", key |-> k]
DocxFile(ps, ts) == [kind |-> "docx", paragraphs |-> ps, tables |-> ts]
XlsxFile(sh) == [kind |-> "xlsx", sheets |-> sh]
BytesFile == [kind |-> "bytes"]

\* extract_text: the text of a UTF-8 text file; "" when the file is missing
\* or cannot be read or decoded.
extract_text(fs, filepath) ==
    IF Exists(fs, filepath) /\ fs[filepath].kind = "text"
    THEN fs[filepath].text
    ELSE <<>>

Digits == {"0", "1", "2", "3", "4", "5", "6", "7", "8", "9"}
DigitValue(d) ==
    CASE d = "0" -> 0 [] d = "1" -> 1 [] d = "2" -> 2 [] d = "3" -> 3
      [] d = "4" -> 4 [] d = "5" -> 5 [] d = "6" -> 6 [] d = "7" -> 7
      [] d = "8" -> 8 [] d = "9" -> 9

\* A style name is a token sequence whose digits are tokens of their own, so
\* that name[-1] is its last token when that token is a digit.
IsHeadingStyle(name) == name # <<>> /\ name[1] = "Heading"

HeadingLevel_NoRangeCheck(name) ==
    IF name[Len(name)] \in Digits THEN DigitValue(name[Len(name)]) ELSE 1

\* level = int(name[-1]); outside 1..6, or not a number: 1
HeadingLevel(name) ==
    IF name[Len(name)] \in Digits
    THEN IF DigitValue(name[Len(name)]) \in 1..6
         THEN DigitValue(name[Len(name)])
         ELSE 1
    ELSE 1

ParagraphMarkdown(para) ==
    IF IsHeadingStyle(para.style)
    THEN Repeat(<<"#">>, HeadingLevel(para.style)) \o <<SP>> \o para.text
    ELSE para.text

\* "| " + " | ".join(cells) + " |"
RowMarkdown(cells) == <<PIPE, SP>> \o Join(cells, <<SP, PIPE, SP>>) \o <<SP, PIPE>>

\* "|" + " --- |" * n
SeparatorMarkdown(n) == <<PIPE>> \o Repeat(<<SP, "---", SP, PIPE>>, n)

\* the parts one table appends to markdown_parts (table.rows is not empty)
TableParts(i, table) ==
    << <<NL, "**Table", SP, ToString(i), "**">>,
       RowMarkdown(table[1]),
       SeparatorMarkdown(Len(table[1])) >>
    \o [r \in 1..(Len(table) - 1) |-> RowMarkdown(table[r + 1])]
    \o << <<>> >>

RECURSIVE TablesParts(_, _)
TablesParts(i, tables) ==
    IF i > Len(tables) THEN <<>>
    ELSE TableParts(i, tables[i]) \o TablesParts(i + 1, tables)

DocxParts(doc) ==
    [i \in 1..Len(doc.paragraphs) |-> ParagraphMarkdown(doc.paragraphs[i])]
    \o (IF doc.tables # <<>>
        THEN << <<NL, NL, "---", SP, "Tables", SP, "---">> >>
                 \o TablesParts(1, doc.tables)
        ELSE <<>>)

\* docx.Document raises on anything that is no .docx package, and
\* table.rows[0] raises IndexError on a table without rows.
DocxRaises(fs, filepath) ==
    \/ ~Exists(fs, filepath)
    \/ fs[filepath].kind # "docx"
    \/ \E i \in 1..Len(fs[filepath].tables) : fs[filepath].tables[i] = <<>>

ErrDocx == <<"Error during", SP, "DOCX conversion.">>
ErrExcel_Reworded == <<"Excel conversion failed.">>
ErrExcel == <<"Error during", SP, "Excel conversion.">>

\* xls.parse: the first row names the columns, an unnamed column is called
\* "Unnamed: k"; df.fillna(''): an empty cell is the empty string.
SheetHeader(rows) ==
    [k \in 1..Len(rows[1]) |->
        IF rows[1][k] = <<>> THEN <<"Unnamed:", SP, ToString(k - 1)>> ELSE rows[1][k]]

\* df.to_markdown(index=False): header line, alignment line, one line per
\* data row (the padding of cells to a common width is left out).
SheetMarkdown(rows) ==
    IF rows = <<>> THEN <<>>
    ELSE Join(<< RowMarkdown(SheetHeader(rows)),
                 <<PIPE>> \o Repeat(<<":---", PIPE>>, Len(rows[1])) >>
              \o [r \in 1..(Len(rows) - 1) |-> RowMarkdown(rows[r + 1])],
              <<NL>>)

RECURSIVE SheetsParts(_, _)
SheetsParts(i, sheets) ==
    IF i > Len(sheets) THEN <<>>
    ELSE << <<"##", SP, "Sheet:", SP, sheets[i].name, NL>>,
            SheetMarkdown(sheets[i].rows),
            <<NL>> >>
         \o SheetsParts(i + 1, sheets)

XlsxRaises(fs, filepath) == ~Exists(fs, filepath) \/ fs[filepath].kind # "xlsx"

\* convert_file_to_markdown.  libfault: the parsing library raises for a
\* reason the file does not decide (an I/O error, a missing dependency).
convert_file_to_markdown(fs, filepath, libfault) ==
    IF get_file_extension(filepath) = <<".docx">>
    THEN IF libfault \/ DocxRaises(fs, filepath)
         THEN ErrDocx
         ELSE Join(DocxParts(fs[filepath]), <<NL, NL>>)
    ELSE IF get_file_extension(filepath) \in {<<".xlsx">>, <<".xls">>}
    THEN IF libfault \/ XlsxRaises(fs, filepath)
         THEN ErrExcel
         ELSE Join(SheetsParts(1, fs[filepath].sheets), <<NL>>)
    ELSE IF get_file_extension(filepath) \in {<<".md">>, <<".txt">>}
    THEN extract_text(fs, filepath)
    ELSE <<>>

\* the line the except clause or the else branch prints
ConvertPrints(fs, filepath, libfault) ==
    IF get_file_extension(filepath) = <<".docx">>
    THEN IF libfault \/ DocxRaises(fs, filepath)
         THEN <<"Error converting DOCX">> ELSE <<>>
    ELSE IF get_file_extension(filepath) \in {<<".xlsx">>, <<".xls">>}
    THEN IF libfault \/ XlsxRaises(fs, filepath)
         THEN <<"Error converting Excel">> ELSE <<>>
    ELSE IF get_file_extension(filepath) \in {<<".md">>, <<".txt">>}
    THEN <<>>
    ELSE <<"Unsupported file type for conversion">>

\* construct_prompt_for_gemini: fixed instructions around the two texts
construct_prompt_for_gemini(reference_dpia_text, customer_template_markdown) ==
    <<"<scenario>..<additional_context>", NL, "<reference_text>", NL>>
    \o reference_dpia_text
    \o <<NL, "</reference_text>", NL, "<customer_DPIA_template>", NL>>
    \o customer_template_markdown
    \o <<NL, "</customer_DPIA_template>">>

ErrNoTextMarker == <<"Error:", SP, "Gemini API returned no text">>
ErrNoText ==
    ErrNoTextMarker \o <<".", SP, "The prompt might have been blocked or an issue occurred.">>
ErrCallMarker == <<"Error during", SP, "Gemini API call">>
ErrCall(msg) == ErrCallMarker \o <<":", SP>> \o msg

generate_dpia_from_prompt_NoEmptyCheck(response) ==
    IF response.raises THEN ErrCall(response.text) ELSE response.text

\* generate_dpia_from_prompt.  response: what model.generate_content did,
\* [raises |-> TRUE, text |-> str(e)] or [raises |-> FALSE, text |-> response.text]
generate_dpia_from_prompt(response) ==
    IF response.raises THEN ErrCall(response.text)
    ELSE IF response.text = <<>> THEN ErrNoText
    ELSE response.text

(***************************************************************************)
(* convert_markdown_to_original_format.  faults names the library and      *)
(* write steps that raise in this call:                                    *)
(*   pandoc  pypandoc.convert_text            (tier 1 of a .docx target)   *)
(*   basic   docx.Document() ... doc.save     (tier 2 of a .docx target)   *)
(*   table   DataFrame of split lines, to_excel on 'Sheet1'                *)
(*   sheet   to_excel of the two-row sheet 'Markdown_Output'               *)
(*   text    open/write of the text stored under the Excel name            *)
(*   plain   open/write of a .md/.txt target                               *)
(*   error   open/write of the _conversion_error.txt sibling               *)
(* A step that raises leaves the filesystem as it was.                     *)
(***************************************************************************)
FaultNames == {"pandoc", "basic", "table", "sheet", "text", "plain", "error"}

\* the steps a target format can reach; a fault of any other step changes
\* nothing in the call
StepsOfFormat(original_file_extension) ==
    IF original_file_extension = <<".docx">> THEN {"pandoc", "basic", "error"}
    ELSE IF original_file_extension \in {<<".xlsx">>, <<".xls">>}
    THEN {"table", "sheet", "text", "error"}
    ELSE {"plain", "error"}

NoStyle == <<>>

\* the --reference-doc pandoc is given: the style reference when it is an
\* existing .docx, none otherwise
PandocReference(fs, style_reference_filepath) ==
    IF /\ style_reference_filepath # NoStyle
       /\ get_file_extension(style_reference_filepath) = <<".docx">>
       /\ Exists(fs, style_reference_filepath)
    THEN style_reference_filepath
    ELSE NoStyle

PandocDocx(markdown_content, reference_doc) ==
    [kind |-> "docx_pandoc", md |-> markdown_content, reference_doc |-> reference_doc]

\* for para_text in markdown_content.split('\n\n'): if para_text.strip(): add
BasicDocx(markdown_content) ==
    DocxFile([i \in 1..Len(SelectSeq(Split(markdown_content, <<NL, NL>>),
                                      LAMBDA c : Strip(c) # <<>>)) |->
                 [style |-> <<"Normal">>,
                  text |-> SelectSeq(Split(markdown_content, <<NL, NL>>),
                                     LAMBDA c : Strip(c) # <<>>)[i]]],
             <<>>)

LooksLikeTable_PipeOnly(markdown_content) == Contains(markdown_content, <<PIPE>>)

\* the "very naive" test for a markdown table
LooksLikeTable(markdown_content) ==
    \/ Contains(markdown_content, <<PIPE, "---", PIPE, "---", PIPE, ":">>)
    \/ (Contains(markdown_content, <<PIPE>>) /\ Contains(markdown_content, <<NL>>))

\* [x.split('|') for x in markdown_content.strip().split('\n') if x.strip()]
TableRows(markdown_content) ==
    [i \in 1..Len(SelectSeq(Split(Strip(markdown_content), <<NL>>),
                            LAMBDA x : Strip(x) # <<>>)) |->
        Split(SelectSeq(Split(Strip(markdown_content), <<NL>>),
                        LAMBDA x : Strip(x) # <<>>)[i], <<PIPE>>)]

TableXlsx(markdown_content) ==
    XlsxFile(<< [name |-> "Sheet1", rows |-> TableRows(markdown_content)] >>)

\* pd.DataFrame([["Markdown Content"], [markdown_content]])
FallbackXlsx(markdown_content) ==
    XlsxFile(<< [name |-> "Markdown_Output",
                 rows |-> << << <<"Markdown Content">> >>, <<markdown_content>> >>] >>)

ExcelNotice ==
    <<"This Excel file contains Markdown content that could not be fully converted to structured Excel data.",
      NL, NL>>

\* os.path.splitext(output_filename)[0] + "_conversion_error.txt"
ErrorSibling(output_filename) ==
    SplitExt(output_filename)[1] \o <<"_conversion_error", ".txt">>

RenderDocx_NoFallback(markdown_content, fs, style_reference_filepath, faults) ==
    IF "pandoc" \notin faults
    THEN [steps |-> <<"pandoc">>, raised |-> FALSE, written |-> TRUE,
          content |-> PandocDocx(markdown_content,
                                 PandocReference(fs, style_reference_filepath))]
    ELSE [steps |-> <<"pandoc">>, raised |-> TRUE, written |-> FALSE,
          content |-> BytesFile]

\* The outcome of the body of the outer try: the steps taken, whether an
\* exception leaves the body, and the content written at output_filename
\* (written = FALSE: nothing was).
RenderDocx(markdown_content, fs, style_reference_filepath, faults) ==
    IF "pandoc" \notin faults
    THEN [steps |-> <<"pandoc">>, raised |-> FALSE, written |-> TRUE,
          content |-> PandocDocx(markdown_content,
                                 PandocReference(fs, style_reference_filepath))]
    ELSE IF "basic" \notin faults
    THEN [steps |-> <<"pandoc", "basic">>, raised |-> FALSE, written |-> TRUE,
          content |-> BasicDocx(markdown_content)]
    ELSE [steps |-> <<"pandoc", "basic">>, raised |-> TRUE, written |-> FALSE,
          content |-> BytesFile]

RenderExcel(markdown_content, faults) ==
    IF LooksLikeTable(markdown_content) /\ "table" \notin faults
    THEN [steps |-> <<"table">>, raised |-> FALSE, written |-> TRUE,
          content |-> TableXlsx(markdown_content)]
    ELSE IF "sheet" \notin faults
    THEN [steps |-> (IF LooksLikeTable(markdown_content) THEN <<"table">> ELSE <<>>)
                     \o <<"sheet">>,
          raised |-> FALSE, written |-> TRUE,
          content |-> FallbackXlsx(markdown_content)]
    ELSE IF "text" \notin faults
    THEN [steps |-> (IF LooksLikeTable(markdown_content) THEN <<"table">> ELSE <<>>)
                     \o <<"sheet", "text">>,
          raised |-> FALSE, written |-> TRUE,
          content |-> TextFile(ExcelNotice \o markdown_content)]
    ELSE [steps |-> (IF LooksLikeTable(markdown_content) THEN <<"table">> ELSE <<>>)
                     \o <<"sheet", "text">>,
          raised |-> TRUE, written |-> FALSE, content |-> BytesFile]

RenderPlain(markdown_content, faults) ==
    IF "plain" \notin faults
    THEN [steps |-> <<"plain">>, raised |-> FALSE, written |-> TRUE,
          content |-> TextFile(markdown_content)]
    ELSE [steps |-> <<"plain">>, raised |-> TRUE, written |-> FALSE,
          content |-> BytesFile]

RenderBody(markdown_content, original_file_extension, fs, style_reference_filepath, faults) ==
    IF original_file_extension = <<".docx">>
    THEN RenderDocx(markdown_content, fs, style_reference_filepath, faults)
    ELSE IF original_file_extension \in {<<".xlsx">>, <<".xls">>}
    THEN RenderExcel(markdown_content, faults)
    ELSE RenderPlain(markdown_content, faults)

\* What the except clause of the outer try does with the outcome of the
\* body: [steps, failed, raised, path, files]; failed: the steps that raised.  raised = TRUE: the exception of the
\* write of the sibling leaves the function, and path is not returned.
RenderOutcome(body, markdown_content, output_filename, fs, faults) ==
    IF ~body.raised
    THEN [steps |-> body.steps, raised |-> FALSE, path |-> output_filename,
          failed |-> SelectSeq(body.steps, LAMBDA st : st \in faults),
          files |-> Written(fs, output_filename, body.content)]
    ELSE IF "error" \notin faults
    THEN [steps |-> Append(body.steps, "error"), raised |-> FALSE,
          failed |-> body.steps,
          path |-> ErrorSibling(output_filename),
          files |-> Written(fs, ErrorSibling(output_filename),
                            TextFile(markdown_content))]
    ELSE [steps |-> Append(body.steps, "error"), raised |-> TRUE,
          failed |-> Append(body.steps, "error"),
          path |-> <<>>, files |-> fs]

convert_markdown_to_original_format(markdown_content, original_file_extension, output_filename, style_reference_filepath, fs, faults) ==
    RenderOutcome(RenderBody(markdown_content, original_file_extension, fs,
                             style_reference_filepath, faults),
                  markdown_content, output_filename, fs, faults)

(***************************************************************************)
(* The job.  One run of an entry point: "cli" is dpia_bot.py run as a      *)
(* script (the __main__ block, then main), "ui" is one run of the          *)
(* app_ui.py script with a file uploaded and "Process DPIA" pressed.       *)
(***************************************************************************)
VARIABLES
    entry,                  \* "cli" or "ui"
    pc,                     \* the statement the run is at, or how it ended
    environ,                \* os.environ's GOOGLE_API_KEY: [set, value]
    files,                  \* the filesystem: path -> content
    reference_at_start,     \* os.path.exists(REFERENCE_DPIA_FILENAME) at start
    customer_name,          \* CUSTOMER_FILE_PLACEHOLDER / uploaded_customer_file.name
    uploaded,               \* the uploaded file's content (ui)
    customer_filepath,      \* customer_filepath_to_process / temp_customer_filepath
    api_key,
    reference_dpia_text,
    customer_original_file_extension,
    conversion,             \* customer_template_markdown
    prompt_text_for_gemini,
    response,               \* what the generation service did
    new_dpia_markdown,
    rendered,               \* what convert_markdown_to_original_format did
    calls,                  \* the pipeline functions called so far, in order
    printed,                \* the error lines convert_file_to_markdown printed
    report                  \* what the run told its user

vars == <<entry, pc, environ, files, reference_at_start, customer_name, uploaded,
          customer_filepath, api_key, reference_dpia_text,
          customer_original_file_extension, conversion, prompt_text_for_gemini,
          response, new_dpia_markdown, rendered, calls, printed, report>>

Unset == [set |-> FALSE, value |-> <<>>]
SetTo(v) == [set |-> TRUE, value |-> v]

\* ---- the inputs of a run ----
Keys == {<<>>, <<"AIza-key">>}
Environs == {Unset} \cup {SetTo(k) : k \in Keys}
DotenvFiles == {EnvFile(k) : k \in Keys}

ReferenceText == <<"#", SP, "Policy", NL, "We retain data for 30 days.">>
ReferenceFiles == {TextFile(<<>>), TextFile(ReferenceText)}

Normal == <<"Normal">>
Heading(d) == <<"Heading", SP, d>>

TemplateDoc ==
    DocxFile(<< [style |-> Heading("2"), text |-> <<"Retention">>],
                [style |-> Normal, text |-> <<"Section:", SP, "retention period?">>] >>,
             << << << <<"Q1">>, <<"Q2">> >>, << <<>>, <<"A2">> >> >> >>)

RowlessTableDoc ==
    DocxFile(<< [style |-> Normal, text |-> <<"Intro">>] >>, << <<>> >>)

TemplateBook ==
    XlsxFile(<< [name |-> "Sheet1", rows |-> << << <<"Q1">>, <<"Q2">> >> >>] >>)

TemplateText == <<"Section:", SP, "retention period?">>

\* a template whose own wording holds the words "Error during"
ErrorWordingDoc ==
    DocxFile(<< [style |-> Normal,
                 text |-> <<"Error during", SP, "transfer:", SP, "which safeguards?">>] >>,
             <<>>)

NoFile == [kind |-> "none"]

\* the customer files a run is given: a name and what is stored under it
Customers ==
    { [name |-> <<"customer_template", ".docx">>, content |-> TemplateDoc],
      [name |-> <<"customer_template", ".docx">>, content |-> NoFile],
      [name |-> <<"customer_template", ".docx">>, content |-> BytesFile],
      [name |-> <<"customer_template", ".docx">>, content |-> RowlessTableDoc],
      [name |-> <<"customer_template", ".docx">>, content |-> ErrorWordingDoc],
      [name |-> <<"customer_template", ".DOCX">>, content |-> TemplateDoc],
      [name |-> <<"dpia", "_conversion_error", ".txt", ".docx">>, content |-> TemplateDoc],
      [name |-> <<"customer_template", ".xlsx">>, content |-> TemplateBook],
      [name |-> <<"customer_template", ".xlsx">>, content |-> BytesFile],
      [name |-> <<"customer_template", ".md">>, content |-> TextFile(TemplateText)],
      [name |-> <<"customer_template", ".md">>, content |-> TextFile(<<>>)],
      [name |-> <<"customer_template", ".pdf">>, content |-> BytesFile] }

\* st.file_uploader(type=["docx", "xlsx"]) hands over a file with one of
\* these extensions only
Uploadable(c) ==
    /\ c.content # NoFile
    /\ c.name # <<>>
    /\ c.name[Len(c.name)] \in {".docx", ".xlsx"}

\* what model.generate_content may do: every text of at most
\* MaxCompletionLen tokens over CompletionTokens, and a few longer ones
MaxCompletionLen == 3
CompletionTokens == {"Q1", PIPE, NL, SP}
SeqsUpTo(S, n) == UNION {[1..k -> S] : k \in 0..n}
Completions ==
    SeqsUpTo(CompletionTokens, MaxCompletionLen)
    \cup { <<"Section:", SP, "retention period?", SP, "We retain data for 30 days.">>,
           <<"Intro", NL, NL, SP, NL, NL, "Body">>,
           <<PIPE, "---", PIPE, "---", PIPE, ":">>,
           <<"Log", SP, "every", SP, "Error during", SP, "Gemini API call", SP, "made.">>,
           <<PIPE, SP, "Q1", SP, PIPE, NL, PIPE, SP, "A1", SP, PIPE>> }
Responses ==
    {[raises |-> FALSE, text |-> t] : t \in Completions}
    \cup {[raises |-> TRUE, text |-> <<"403 API key not valid">>]}

NotRendered == [steps |-> <<>>, failed |-> <<>>, raised |-> FALSE, path |-> <<>>]

InitialFiles(env, ref, cust, e) ==
    [q \in (IF env = NoFile THEN {} ELSE {DOTENV})
           \cup (IF ref = NoFile THEN {} ELSE {REFERENCE_DPIA_FILENAME})
           \cup (IF e = "cli" /\ cust.content # NoFile THEN {cust.name} ELSE {}) |->
        IF q = DOTENV THEN env
        ELSE IF q = REFERENCE_DPIA_FILENAME THEN ref
        ELSE cust.content]

Init ==
    /\ entry \in {"cli", "ui"}
    /\ pc = "start"
    /\ environ \in Environs
    /\ \E env \in DotenvFiles \cup {NoFile}, ref \in ReferenceFiles \cup {NoFile},
          cust \in Customers :
        /\ entry = "ui" => Uploadable(cust)
        /\ files = InitialFiles(env, ref, cust, entry)
        /\ reference_at_start = (ref # NoFile)
        /\ customer_name = cust.name
        /\ uploaded = IF entry = "ui" THEN cust.content ELSE NoFile
    /\ customer_filepath = <<>>
    /\ api_key = <<>>
    /\ reference_dpia_text = <<>>
    /\ customer_original_file_extension = <<>>
    /\ conversion = <<>>
    /\ prompt_text_for_gemini = <<>>
    /\ response = [raises |-> FALSE, text |-> <<>>]
    /\ new_dpia_markdown = <<>>
    /\ rendered = NotRendered
    /\ calls = <<>>
    /\ printed = <<>>
    /\ report = "none"

\* ---- the files the __main__ block creates when they are missing ----
DummyReference ==
    TextFile(<<"# Reference DPIA Content\\n\\nThis is sample markdown for the reference DPIA.">>)
DummyCustomer ==
    DocxFile(<< [style |-> <<"Title">>, text |-> <<"Customer DPIA Template">>],
                [style |-> Normal, text |-> <<"Section 1: What is your name?">>],
                [style |-> Normal, text |-> <<"Section 2: What is your quest?">>] >>,
             << << << <<"Header A">>, <<"Header B">> >>,
                   << <<"Data 1">>, <<"Data 2">> >> >> >>)
DummyEnv == EnvFile(<<"YOUR_API_KEY_HERE">>)

\* the files after the __main__ block's three "create if missing" steps;
\* wfail: the creations that raise.  The first and the third are not
\* guarded, the second is inside try/except.
AfterReferenceDummy(fs) ==
    IF Exists(fs, REFERENCE_DPIA_FILENAME) THEN fs
    ELSE Written(fs, REFERENCE_DPIA_FILENAME, DummyReference)
AfterCustomerDummy(fs, name, wfail) ==
    IF Exists(fs, name) \/ "customer" \in wfail THEN fs
    ELSE Written(fs, name, DummyCustomer)
AfterEnvDummy(fs) ==
    IF Exists(fs, DOTENV) THEN fs ELSE Written(fs, DOTENV, DummyEnv)

MainBlockRaisesAtReference(fs, wfail) ==
    ~Exists(fs, REFERENCE_DPIA_FILENAME) /\ "reference" \in wfail
MainBlockRaisesAtEnv(fs, wfail) == ~Exists(fs, DOTENV) /\ "env" \in wfail

\* dpia_bot.py run as a script: the dummy files, then main()
MainBlock ==
    /\ entry = "cli" /\ pc = "start"
    /\ \E wfail \in SUBSET {"reference", "customer", "env"} :
        IF MainBlockRaisesAtReference(files, wfail)
        THEN /\ pc' = "crashed" /\ report' = "traceback"
             /\ files' = files
        ELSE IF MainBlockRaisesAtEnv(files, wfail)
        THEN /\ pc' = "crashed" /\ report' = "traceback"
             /\ files' = AfterCustomerDummy(AfterReferenceDummy(files),
                                            customer_name, wfail)
        ELSE /\ pc' = "load_key" /\ report' = report
             /\ files' = AfterEnvDummy(AfterCustomerDummy(AfterReferenceDummy(files),
                                                          customer_name, wfail))
    /\ UNCHANGED <<printed, entry, environ, reference_at_start, customer_name, uploaded,
                   customer_filepath, api_key, reference_dpia_text,
                   customer_original_file_extension, conversion,
                   prompt_text_for_gemini, response, new_dpia_markdown, rendered,
                   calls>>

ReferenceFileMissing_Never(fs) == FALSE

\* if not os.path.exists(REFERENCE_DPIA_FILENAME)
ReferenceFileMissing(fs) == ~Exists(fs, REFERENCE_DPIA_FILENAME)

\* app_ui.py from its top to the button: the reference check, the upload
UiScript ==
    /\ entry = "ui" /\ pc = "start"
    /\ IF ReferenceFileMissing(files)
       THEN pc' = "stopped" /\ report' = "no_reference_file"
       ELSE pc' = "save_upload" /\ report' = report
    /\ UNCHANGED <<printed, entry, environ, files, reference_at_start, customer_name,
                   uploaded, customer_filepath, api_key, reference_dpia_text,
                   customer_original_file_extension, conversion,
                   prompt_text_for_gemini, response, new_dpia_markdown, rendered,
                   calls>>

\* the uploaded file is saved in the temporary directory (outside the try)
UiSaveUpload ==
    /\ pc = "save_upload"
    /\ customer_filepath' = TEMP_DIR \o customer_name
    /\ \E fails \in BOOLEAN :
        IF fails
        THEN pc' = "crashed" /\ report' = "traceback" /\ files' = files
        ELSE /\ pc' = "load_key" /\ report' = report
             /\ files' = Written(files, TEMP_DIR \o customer_name, uploaded)
    /\ UNCHANGED <<printed, entry, environ, reference_at_start, customer_name, uploaded,
                   api_key, reference_dpia_text, customer_original_file_extension,
                   conversion, prompt_text_for_gemini, response, new_dpia_markdown,
                   rendered, calls>>

\* load_dotenv(): a variable the environment does not set is taken from .env
AfterLoadDotenv(env, fs) ==
    IF ~env.set /\ Exists(fs, DOTENV) /\ fs[DOTENV].kind = "env"
    THEN SetTo(fs[DOTENV].key)
    ELSE env

LoadKeyRaises_NoneOnly(env) == ~env.set

\* os.getenv("GOOGLE_API_KEY"): None when unset
\* load_google_api_key raises ValueError when the key is None or ""
LoadKeyRaises(env) == ~env.set \/ env.value = <<>>

\* how a failed stage ends the run: main returns, the handler calls st.stop()
Halted == IF entry = "cli" THEN "returned" ELSE "stopped"

LoadKey ==
    /\ pc = "load_key"
    /\ calls' = Append(calls, "load_google_api_key")
    /\ environ' = AfterLoadDotenv(environ, files)
    /\ IF LoadKeyRaises(AfterLoadDotenv(environ, files))
       THEN /\ pc' = (IF entry = "cli" THEN "returned" ELSE "excepted")
            /\ report' = "no_key"
            /\ api_key' = api_key
       ELSE /\ pc' = "reference"
            /\ report' = report
            /\ api_key' = AfterLoadDotenv(environ, files).value
    /\ UNCHANGED <<printed, entry, files, reference_at_start, customer_name, uploaded,
                   customer_filepath, reference_dpia_text,
                   customer_original_file_extension, conversion,
                   prompt_text_for_gemini, response, new_dpia_markdown, rendered>>

ExtractReference ==
    /\ pc = "reference"
    /\ calls' = Append(calls, "extract_text")
    /\ reference_dpia_text' = extract_text(files, REFERENCE_DPIA_FILENAME)
    /\ IF extract_text(files, REFERENCE_DPIA_FILENAME) = <<>>
       THEN pc' = Halted /\ report' = "no_reference"
       ELSE /\ pc' = (IF entry = "cli" THEN "placeholder" ELSE "template")
            /\ report' = report
    /\ UNCHANGED <<printed, entry, environ, files, reference_at_start, customer_name,
                   uploaded, customer_filepath, api_key,
                   customer_original_file_extension, conversion,
                   prompt_text_for_gemini, response, new_dpia_markdown, rendered>>

\* main: upload_file_placeholder, then the os.path.exists check
UploadPlaceholder ==
    /\ pc = "placeholder"
    /\ customer_filepath' = customer_name
    /\ IF ~Exists(files, customer_name)
       THEN pc' = "returned" /\ report' = "no_customer_file"
       ELSE pc' = "template" /\ report' = report
    /\ UNCHANGED <<printed, entry, environ, files, reference_at_start, customer_name,
                   uploaded, api_key, reference_dpia_text,
                   customer_original_file_extension, conversion,
                   prompt_text_for_gemini, response, new_dpia_markdown, rendered,
                   calls>>

ConversionFailed_EmptyOnly(c) == c = <<>>

ConversionFailed_SentinelOnly(c) == Contains(c, <<"Error during">>)

\* if not conversion or "Error during" in conversion
ConversionFailed(c) == c = <<>> \/ Contains(c, <<"Error during">>)

ConvertTemplate ==
    /\ pc = "template"
    /\ calls' = Append(calls, "convert_file_to_markdown")
    /\ customer_original_file_extension' = get_file_extension(customer_filepath)
    /\ \E libfault \in BOOLEAN :
        /\ conversion' = convert_file_to_markdown(files, customer_filepath, libfault)
        /\ printed' = printed \o ConvertPrints(files, customer_filepath, libfault)
        /\ IF ConversionFailed(convert_file_to_markdown(files, customer_filepath, libfault))
           THEN pc' = Halted /\ report' = "no_conversion"
           ELSE pc' = "prompt" /\ report' = report
    /\ UNCHANGED <<entry, environ, files, reference_at_start, customer_name,
                   uploaded, customer_filepath, api_key, reference_dpia_text,
                   prompt_text_for_gemini, response, new_dpia_markdown, rendered>>

BuildPrompt ==
    /\ pc = "prompt"
    /\ calls' = Append(calls, "construct_prompt_for_gemini")
    /\ prompt_text_for_gemini' =
           construct_prompt_for_gemini(reference_dpia_text, conversion)
    /\ pc' = "generate"
    /\ UNCHANGED <<printed, entry, environ, files, reference_at_start, customer_name,
                   uploaded, customer_filepath, api_key, reference_dpia_text,
                   customer_original_file_extension, conversion, response,
                   new_dpia_markdown, rendered, report>>

GenerationFailed_CallMarkerOnly(t) == Contains(t, ErrCallMarker)

\* the two substring tests on the result of generate_dpia_from_prompt
GenerationFailed(t) == Contains(t, ErrCallMarker) \/ Contains(t, ErrNoTextMarker)

Generate ==
    /\ pc = "generate"
    /\ calls' = Append(calls, "generate_dpia_from_prompt")
    /\ \E r \in Responses :
        /\ response' = r
        /\ new_dpia_markdown' = generate_dpia_from_prompt(r)
        /\ IF GenerationFailed(generate_dpia_from_prompt(r))
           THEN pc' = Halted /\ report' = "no_generation"
           ELSE pc' = "render" /\ report' = report
    /\ UNCHANGED <<printed, entry, environ, files, reference_at_start, customer_name,
                   uploaded, customer_filepath, api_key, reference_dpia_text,
                   customer_original_file_extension, conversion,
                   prompt_text_for_gemini, rendered>>

ErrorSuffix == <<"_conversion_error", ".txt">>

PreparedPath_InPlace == customer_filepath

\* prepared_doc_filepath (main) / prepared_doc_filepath_temp (handler)
PreparedPath ==
    IF entry = "cli"
    THEN SplitExt(Basename(customer_filepath))[1] \o <<"_completed">>
             \o customer_original_file_extension
    ELSE TEMP_DIR \o SplitExt(customer_name)[1] \o <<"_completed">>
             \o customer_original_file_extension

\* the test each entry point makes on the returned path
ReportsDegraded(path) ==
    IF entry = "cli"
    THEN Contains(path, ErrorSuffix)
    ELSE Contains(LowerAll(Basename(path)), ErrorSuffix)

\* the render stage and what follows it: the path test, the report
Render ==
    /\ pc = "render"
    /\ calls' = Append(calls, "convert_markdown_to_original_format")
    /\ \E faults \in SUBSET StepsOfFormat(customer_original_file_extension) :
        LET out == convert_markdown_to_original_format(
                       new_dpia_markdown, customer_original_file_extension,
                       PreparedPath, customer_filepath, files, faults)
        IN  /\ rendered' = [steps |-> out.steps, failed |-> out.failed,
                            raised |-> out.raised, path |-> out.path]
            /\ files' = out.files
            /\ IF out.raised
               THEN /\ pc' = (IF entry = "cli" THEN "crashed" ELSE "excepted")
                    /\ report' = (IF entry = "cli" THEN "traceback" ELSE "exception")
               ELSE /\ pc' = "done"
                    /\ report' = (IF ReportsDegraded(out.path)
                                  THEN "degraded" ELSE "success")
    /\ UNCHANGED <<printed, entry, environ, reference_at_start, customer_name, uploaded,
                   customer_filepath, api_key, reference_dpia_text,
                   customer_original_file_extension, conversion,
                   prompt_text_for_gemini, response, new_dpia_markdown>>

Next ==
    \/ MainBlock
    \/ UiScript
    \/ UiSaveUpload
    \/ LoadKey
    \/ ExtractReference
    \/ UploadPlaceholder
    \/ ConvertTemplate
    \/ BuildPrompt
    \/ Generate
    \/ Render

Spec == Init /\ [][Next]_vars

(***************************************************************************)
(* Properties                                                              *)
(***************************************************************************)
Called(f) == \E i \in 1..Len(calls) : calls[i] = f

StageOrder ==
    <<"load_google_api_key", "extract_text", "convert_file_to_markdown",
      "construct_prompt_for_gemini", "generate_dpia_from_prompt",
      "convert_markdown_to_original_format">>

IsPrefix(s, t) == Len(s) <= Len(t) /\ SubSeq(t, 1, Len(s)) = s

\* the words of a text: its tokens other than white space and pipes
Words(t) == SelectSeq(t, LAMBDA x : x \notin {NL, SP, PIPE})

\* every token a stored file holds, in reading order
FileTokens(c) ==
    IF c.kind = "text" THEN c.text
    ELSE IF c.kind = "docx_pandoc" THEN c.md
    ELSE IF c.kind = "docx"
    THEN Flatten([i \in 1..Len(c.paragraphs) |-> c.paragraphs[i].text])
    ELSE IF c.kind = "xlsx"
    THEN Flatten([i \in 1..Len(c.sheets) |->
                    Flatten([r \in 1..Len(c.sheets[i].rows) |->
                               Flatten(c.sheets[i].rows[r])])])
    ELSE <<>>

\* the file holds the text in a recoverable form: every word, in order
HoldsText(c, t) == Contains(Words(FileTokens(c)), Words(t))

RenderCalled == Called("convert_markdown_to_original_format")

\* C1: convert_markdown_to_original_format never raises to its caller:
\* whatever its internal write steps do, the write of the terminal fallback
\* included, it returns a path, and a file holding the generated text exists
\* at that path.
C1_RenderNeverRaises ==
    RenderCalled =>
        /\ ~rendered.raised
        /\ Exists(files, rendered.path)
        /\ HoldsText(files[rendered.path], new_dpia_markdown)

\* what C1 promises, in the runs where the write of the sibling did not raise
C1_ReturnedPathHoldsText ==
    (RenderCalled /\ ~rendered.raised) =>
        /\ Exists(files, rendered.path)
        /\ HoldsText(files[rendered.path], new_dpia_markdown)

EmptyCompletion ==
    /\ Called("generate_dpia_from_prompt")
    /\ ~response.raises
    /\ response.text = <<>>

\* C2: when the generation service returns a completion whose text is empty,
\* the job halts (main returns, the handler stops) and
\* convert_markdown_to_original_format is not called in that job.
C2_EmptyCompletionHalts ==
    EmptyCompletion =>
        /\ ~RenderCalled
        /\ pc = (IF entry = "cli" THEN "returned" ELSE "stopped")
        /\ rendered = NotRendered

C2_Witness == EmptyCompletion /\ entry = "ui" /\ pc = "stopped"

KeyAbsentOrEmpty == ~environ.set \/ environ.value = <<>>

\* a stage's own verdict on its result, whatever the orchestrator tested
ReferenceStageFailed == reference_dpia_text = <<>>
TemplateStageFailed ==
    \/ conversion = <<>>
    \/ StartsWith(conversion, <<"Error during", SP, "DOCX conversion.">>)
    \/ StartsWith(conversion, <<"Error during", SP, "Excel conversion.">>)
GenerationStageFailed == response.raises \/ response.text = <<>>

\* C3: the stages of a job run in the order load credential, extract
\* reference, extract customer template, build prompt, generate, render; a
\* stage starts only after every earlier one finished without failure, so
\* once a stage has failed no later stage starts.
C3_StagesInOrder ==
    /\ IsPrefix(calls, StageOrder)
    /\ Len(calls) > 1 => ~KeyAbsentOrEmpty
    /\ Len(calls) > 2 => ~ReferenceStageFailed
    /\ Len(calls) > 3 => ~TemplateStageFailed
    /\ Len(calls) > 5 => ~GenerationStageFailed

C3_Witness == pc = "done" /\ calls = StageOrder /\ entry = "cli"

\* C4: if GOOGLE_API_KEY is absent or empty when load_google_api_key reads
\* it, the call fails and the job is blocked before any extraction: neither
\* extract_text nor convert_file_to_markdown nor any later stage is called.
C4_NoKeyBlocksJob ==
    (Called("load_google_api_key") /\ KeyAbsentOrEmpty) =>
        /\ calls = <<"load_google_api_key">>
        /\ pc \in {"returned", "excepted"}
        /\ report = "no_key"

C4_Witness ==
    /\ Called("load_google_api_key")
    /\ environ.set /\ environ.value = <<>>
    /\ pc = "returned"

ProcessingStarted ==
    \/ Called("convert_file_to_markdown")
    \/ Called("construct_prompt_for_gemini")
    \/ Called("generate_dpia_from_prompt")
    \/ RenderCalled

\* C5 as stated: if reference_dpia.txt is absent at start, then in both
\* entry points no template extraction, no prompt construction, no
\* generation call and no render happens in that run.
C5_AbsentReferenceNeverStarts == ~reference_at_start => ~ProcessingStarted

\* C5 as amended: if reference_dpia.txt is absent when the UI script starts,
\* no stage of the pipeline runs at all in that run; in the command-line
\* entry point, where the __main__ block first writes a dummy reference file
\* when none exists, and in the UI alike, no template extraction, prompt
\* construction, generation call or render happens unless the reference
\* file exists as a non-empty text file when extract_text reads it.
C5_ReferenceNeeded ==
    /\ (entry = "ui" /\ ~reference_at_start) =>
           /\ calls = <<>>
           /\ pc \in {"start", "stopped"}
    /\ ProcessingStarted =>
           /\ REFERENCE_DPIA_FILENAME \in DOMAIN files
           /\ files[REFERENCE_DPIA_FILENAME].kind = "text"
           /\ files[REFERENCE_DPIA_FILENAME].text # <<>>
           /\ reference_dpia_text = files[REFERENCE_DPIA_FILENAME].text

C5_Witness ==
    /\ entry = "ui" /\ ~reference_at_start
    /\ pc = "stopped" /\ report = "no_reference_file"

SupportedExtensionTokens == {".docx", ".DOCX", ".xlsx", ".xls", ".md", ".txt"}

UnsupportedTemplate ==
    /\ Called("convert_file_to_markdown")
    /\ customer_filepath[Len(customer_filepath)] \notin SupportedExtensionTokens

\* C6: for a template whose extension is none of .docx, .xlsx, .xls, .md,
\* .txt, convert_file_to_markdown returns the empty string and the job ends
\* there: no prompt is built, the generation service is not called and
\* nothing is rendered.
C6_UnsupportedFormatHalts ==
    UnsupportedTemplate =>
        /\ conversion = <<>>
        /\ calls = SubSeq(StageOrder, 1, 3)
        /\ pc = "returned"
        /\ rendered = NotRendered

C6_Witness ==
    /\ UnsupportedTemplate
    /\ customer_filepath = <<"customer_template", ".pdf">>
    /\ report = "no_conversion"

ParseRaised ==
    \E i \in 1..Len(printed) :
        printed[i] \in {"Error converting DOCX", "Error converting Excel"}

\* C7: an exception while a .docx or .xlsx/.xls template is parsed does not
\* leave convert_file_to_markdown: the call returns the sentinel
\* "Error during DOCX conversion." or "Error during Excel conversion.", and
\* the orchestrator, finding "Error during" in it, halts the job before the
\* prompt is built.
C7_ParseErrorBecomesSentinel ==
    ParseRaised =>
        /\ StartsWith(conversion, <<"Error during", SP>>)
        /\ conversion[3] = (IF customer_original_file_extension = <<".docx">>
                            THEN "DOCX conversion." ELSE "Excel conversion.")
        /\ Len(conversion) = 3
        /\ calls = SubSeq(StageOrder, 1, 3)
        /\ pc = (IF entry = "cli" THEN "returned" ELSE "stopped")

C7_Witness ==
    /\ ParseRaised
    /\ customer_original_file_extension = <<".xlsx">>
    /\ entry = "ui" /\ pc = "stopped"

\* C8: generate_dpia_from_prompt returns exactly one of three things: the
\* completion text unchanged when it is not empty; a sentinel that begins
\* "Error: " when it is empty; a sentinel that begins
\* "Error during Gemini API call:" and ends with the exception's message
\* when the call raised.
C8_GenerationResultKinds ==
    Called("generate_dpia_from_prompt") =>
        /\ (~response.raises /\ response.text # <<>>) =>
               new_dpia_markdown = response.text
        /\ (~response.raises /\ response.text = <<>>) =>
               StartsWith(new_dpia_markdown, <<"Error:", SP>>)
        /\ response.raises =>
               new_dpia_markdown =
                   <<"Error during", SP, "Gemini API call", ":", SP>> \o response.text

C8_Witness ==
    /\ Called("generate_dpia_from_prompt")
    /\ response.raises
    /\ new_dpia_markdown[Len(new_dpia_markdown)] = "403 API key not valid"

Has(seq, x) == \E i \in 1..Len(seq) : seq[i] = x

DocxRendered == RenderCalled /\ customer_original_file_extension = <<".docx">>

\* C9: for a .docx target, tier 2 (the blank-line split into unstyled
\* paragraphs) runs exactly when tier 1 (pandoc) raised; when tier 1 or
\* tier 2 succeeds the document is written at the output path and that path
\* is returned; the _conversion_error.txt sibling is returned only when both
\* tiers raised.
C9_DocxTiers ==
    DocxRendered =>
        /\ Has(rendered.steps, "pandoc")
        /\ Has(rendered.steps, "basic") <=> Has(rendered.failed, "pandoc")
        /\ (~Has(rendered.failed, "pandoc") \/ ~Has(rendered.failed, "basic")) =>
               /\ ~rendered.raised
               /\ rendered.path = PreparedPath
               /\ Exists(files, PreparedPath)
               /\ files[PreparedPath].kind =
                      (IF Has(rendered.failed, "pandoc") THEN "docx" ELSE "docx_pandoc")
        /\ (~rendered.raised /\ rendered.path # PreparedPath) =>
               /\ Has(rendered.failed, "pandoc")
               /\ Has(rendered.failed, "basic")
               /\ rendered.path = SplitExt(PreparedPath)[1] \o <<"_conversion_error", ".txt">>

C9_Witness ==
    /\ DocxRendered
    /\ rendered.steps = <<"pandoc", "basic">>
    /\ rendered.failed = <<"pandoc">>
    /\ rendered.path = PreparedPath
    /\ files[PreparedPath].kind = "docx"

ExcelRendered ==
    RenderCalled /\ customer_original_file_extension \in {<<".xlsx">>, <<".xls">>}

\* C10 as stated: for an .xlsx/.xls target the naive split on the pipe
\* character is always attempted first, and the two-row fallback sheet is
\* written only if that attempt raised.
C10_TableAlwaysAttemptedFirst ==
    ExcelRendered =>
        /\ rendered.steps[1] = "table"
        /\ Has(rendered.steps, "sheet") => Has(rendered.failed, "table")

TextHasPipeAndNewline(t) ==
    \/ (\E i \in 1..Len(t) : t[i] = PIPE) /\ (\E j \in 1..Len(t) : t[j] = NL)
    \/ \E i \in 1..(Len(t) - 5) :
           /\ t[i] = PIPE /\ t[i + 1] = "---" /\ t[i + 2] = PIPE
           /\ t[i + 3] = "---" /\ t[i + 4] = PIPE /\ t[i + 5] = ":"

\* C10 as amended: for an .xlsx/.xls target the naive split on the pipe
\* character is attempted, as the first step, exactly when the generated
\* text contains "|---|---|:" or contains both a pipe and a newline; the
\* two-row fallback sheet is attempted exactly when that attempt raised or
\* was not made.
C10_TableAttemptedWhenTableLike ==
    ExcelRendered =>
        /\ Has(rendered.steps, "table") <=> TextHasPipeAndNewline(new_dpia_markdown)
        /\ Has(rendered.steps, "table") => rendered.steps[1] = "table"
        /\ Has(rendered.steps, "sheet") <=>
               (Has(rendered.failed, "table") \/ ~Has(rendered.steps, "table"))

C10_Witness ==
    /\ ExcelRendered
    /\ new_dpia_markdown = <<"Q1", PIPE, "Q1">>
    /\ rendered.steps = <<"sheet">>
    /\ rendered.path = PreparedPath
    /\ files[PreparedPath].sheets[1].name = "Markdown_Output"

\* C11: render returns the _conversion_error.txt sibling exactly when the
\* render operation raised at its top level, and the orchestrator's test of
\* the returned path reports the degraded outcome exactly then: whatever the
\* input file is called, the job is reported as degraded if and only if
\* render returned the sibling instead of the output path.
C11_DegradedIffSibling ==
    (RenderCalled /\ ~rendered.raised) =>
        /\ (rendered.path # PreparedPath) <=> Has(rendered.steps, "error")
        /\ (report = "degraded") <=> (rendered.path # PreparedPath)

\* the extractor's own verdict: it returned nothing, or its parser raised
TemplateExtractionFailed == conversion = <<>> \/ ParseRaised

\* C16: the orchestrator halts after template extraction only if the
\* extractor failed (unsupported format, empty result, caught exception) and
\* halts after generation only if the generation client reported a failure
\* (empty completion, caught exception); a template extracted without
\* failure and a non-empty completion, whatever text they hold, let the job
\* go on to the next stage.
C16_DetectionExact ==
    /\ report = "no_conversion" => TemplateExtractionFailed
    /\ report = "no_generation" => (response.raises \/ response.text = <<>>)

\* "<original-base>_completed<ext>", in the directory the entry point uses
CompletedName ==
    (IF entry = "ui" THEN TEMP_DIR ELSE <<>>)
        \o SplitExt(customer_name)[1] \o <<"_completed">>
        \o LowerAll(SplitExt(customer_name)[2])

JobRunning ==
    pc \in {"load_key", "reference", "placeholder", "template", "prompt",
            "generate", "render"}

\* C17: a job never modifies its input: every file a step of the job writes
\* is at the output path "<original-base>_completed<ext>" or at its
\* "_conversion_error.txt" sibling, neither of which is the path of the
\* customer template (also the style reference) or of the reference corpus,
\* and no file is removed.
C17_InputsNeverWritten ==
    [][JobRunning =>
          /\ DOMAIN files \subseteq DOMAIN files'
          /\ \A p \in DOMAIN files' :
                 (p \notin DOMAIN files \/ files'[p] # files[p]) =>
                     /\ p \in {CompletedName,
                               SplitExt(CompletedName)[1] \o <<"_conversion_error", ".txt">>}
                     /\ p # customer_filepath
                     /\ p # REFERENCE_DPIA_FILENAME
                     /\ pc = "render"]_vars

C17_Witness ==
    /\ pc = "done" /\ entry = "ui"
    /\ rendered.failed = <<"pandoc", "basic">>
    /\ rendered.path \in DOMAIN files
    /\ rendered.path # customer_filepath
    /\ files[customer_filepath] = uploaded
    /\ files[REFERENCE_DPIA_FILENAME] = TextFile(ReferenceText)

(***************************************************************************)
(* convert_file_to_markdown on its own: one .docx or .xlsx file of a       *)
(* bounded shape is extracted, and a .docx extraction is written back by   *)
(* the render operation with pandoc unavailable.                           *)
(***************************************************************************)
MaxParagraphs == 2
MaxTables == 2
MaxRows == 2
MaxCols == 2
MaxSheets == 2

\* para.style.name
StyleNames ==
    {Normal, <<"Title">>, <<"Heading">>, <<"Heading", SP, "1", SP, "Char">>,
     <<"Heading", SP, "1", "2">>}
    \cup {Heading(d) : d \in {"0", "1", "2", "3", "4", "5", "6", "7", "9"}}

\* para.text; a line break inside a paragraph is "\n"
ParagraphTexts == {<<>>, <<"A">>, <<SP>>, <<"B", NL, NL, "C">>}

Paragraphs ==
    {[style |-> st, text |-> <<"A">>] : st \in StyleNames}
    \cup {[style |-> Normal, text |-> t] : t \in ParagraphTexts}

\* cell.text of row r, column c
CellText(r, c) == <<"r", ToString(r), "c", ToString(c)>>

\* table.rows of a table with n rows of m cells
TableRowsOf(n, m) == [r \in 1..n |-> [c \in 1..m |-> CellText(r, c)]]

Tables == {TableRowsOf(n, m) : n \in 0..MaxRows, m \in 1..MaxCols}

Documents ==
    {DocxFile(ps, <<>>) : ps \in SeqsUpTo(Paragraphs, MaxParagraphs)}
    \cup {DocxFile(<< [style |-> Normal, text |-> <<"A">>] >>, ts) :
             ts \in SeqsUpTo(Tables, MaxTables)}

\* the rows of a sheet with n rows of m cells; the last cell of row blank is
\* empty (blank = 0: no cell is empty)
SheetRowsOf(n, m, blank) ==
    [r \in 1..n |-> [c \in 1..m |->
        IF r = blank /\ c = m THEN <<>> ELSE CellText(r, c)]]

SheetGrids ==
    {SheetRowsOf(x[1], x[2], x[3]) :
        x \in {y \in (0..MaxRows) \X (1..MaxCols) \X (0..MaxRows) :
                  y[3] <= y[1] /\ (y[3] > 0 => y[2] > 1)}}

\* xls.sheet_names
SheetName(i) == <<"Sheet1", "Sheet2", "Sheet3", "Sheet4">>[i]

Workbooks ==
    UNION {{XlsxFile([i \in 1..k |-> [name |-> SheetName(i), rows |-> g[i]]]) :
               g \in [1..k -> SheetGrids]} : k \in 1..MaxSheets}

ExtractInputs ==
    {[name |-> <<"customer_template", ".docx">>, content |-> d] : d \in Documents}
    \cup {[name |-> <<"customer_template", ".xlsx">>, content |-> w] : w \in Workbooks}

InitExtract ==
    /\ entry = "cli"
    /\ pc = "template"
    /\ environ = Unset
    /\ \E cust \in ExtractInputs :
        /\ files = [q \in {cust.name} |-> cust.content]
        /\ customer_name = cust.name
        /\ customer_filepath = cust.name
    /\ reference_at_start = FALSE
    /\ uploaded = NoFile
    /\ api_key = <<>>
    /\ reference_dpia_text = <<>>
    /\ customer_original_file_extension = <<>>
    /\ conversion = <<>>
    /\ prompt_text_for_gemini = <<>>
    /\ response = [raises |-> FALSE, text |-> <<>>]
    /\ new_dpia_markdown = <<>>
    /\ rendered = NotRendered
    /\ calls = <<>>
    /\ printed = <<>>
    /\ report = "none"

\* customer_template_markdown = convert_file_to_markdown(customer_filepath)
ExtractDocument ==
    /\ pc = "template"
    /\ calls' = Append(calls, "convert_file_to_markdown")
    /\ customer_original_file_extension' = get_file_extension(customer_filepath)
    /\ conversion' = convert_file_to_markdown(files, customer_filepath, FALSE)
    /\ printed' = printed \o ConvertPrints(files, customer_filepath, FALSE)
    /\ pc' = "extracted"
    /\ UNCHANGED <<entry, environ, files, reference_at_start, customer_name,
                   uploaded, customer_filepath, api_key, reference_dpia_text,
                   prompt_text_for_gemini, response, new_dpia_markdown, rendered,
                   report>>

\* the extracted text given back to convert_markdown_to_original_format for
\* a .docx target, pypandoc.convert_text raising
WriteBackBasic ==
    /\ pc = "extracted"
    /\ customer_original_file_extension = <<".docx">>
    /\ calls' = Append(calls, "convert_markdown_to_original_format")
    /\ LET out == convert_markdown_to_original_format(
                      conversion, customer_original_file_extension,
                      PreparedPath, customer_filepath, files, {"pandoc"})
       IN  /\ rendered' = [steps |-> out.steps, failed |-> out.failed,
                           raised |-> out.raised, path |-> out.path]
           /\ files' = out.files
    /\ pc' = "written_back"
    /\ UNCHANGED <<printed, entry, environ, reference_at_start, customer_name,
                   uploaded, customer_filepath, api_key, reference_dpia_text,
                   customer_original_file_extension, conversion,
                   prompt_text_for_gemini, response, new_dpia_markdown, report>>

NextExtract ==
    \/ ExtractDocument
    \/ WriteBackBasic

SpecExtract == InitExtract /\ [][NextExtract]_vars

\* ---- yardsticks for the extraction claims ----
DocxExtracted ==
    /\ pc \in {"extracted", "written_back"}
    /\ customer_original_file_extension = <<".docx">>

XlsxExtracted ==
    /\ pc = "extracted"
    /\ customer_original_file_extension = <<".xlsx">>

\* the texts occur in t one after the other, from position `from` on
RECURSIVE InOrderFrom(_, _, _, _)
InOrderFrom(texts, i, t, from) ==
    IF i > Len(texts) THEN TRUE
    ELSE /\ Find(t, texts[i], from) # 0
         /\ InOrderFrom(texts, i + 1, t, Find(t, texts[i], from) + Len(texts[i]))

ParagraphTextsOf(doc) == [i \in 1..Len(doc.paragraphs) |-> doc.paragraphs[i].text]

\* the lines of a grid: they start with a pipe; the line under the header
\* holds dashes only
IsGridLine(line) == line # <<>> /\ line[1] = PIPE
IsRuleLine(line) ==
    /\ IsGridLine(line)
    /\ \A k \in 1..Len(line) : line[k] \in {PIPE, SP, "---", ":---"}
    /\ \E k \in 1..Len(line) : line[k] \in {"---", ":---"}
IsRowLine(line) == IsGridLine(line) /\ ~IsRuleLine(line)

\* the cells of a grid row "| a | b |"
CellsOfLine(line) ==
    [k \in 1..(Len(Split(line, <<PIPE>>)) - 2) |-> Strip(Split(line, <<PIPE>>)[k + 1])]

\* the number of cells of every row of every table, table after table
RECURSIVE RowWidths(_, _)
RowWidths(tables, j) ==
    IF j > Len(tables) THEN <<>>
    ELSE [r \in 1..Len(tables[j]) |-> Len(tables[j][r])] \o RowWidths(tables, j + 1)

\* C13: for a .docx with N paragraphs and M tables, tables with no row or
\* one row included, convert_file_to_markdown returns a text that holds the
\* N paragraph texts in their order and, after them, one grid per table
\* with as many rows and columns as the table.
C13_ParagraphsThenGrids ==
    DocxExtracted =>
        LET doc == files[customer_filepath]
            parts == Split(conversion, <<NL, NL>>)
            rows == SelectSeq(parts, IsRowLine)
        IN  /\ InOrderFrom(ParagraphTextsOf(doc)
                               \o (IF doc.tables # <<>> THEN << <<PIPE>> >> ELSE <<>>),
                           1, conversion, 1)
            /\ Len(SelectSeq(parts, IsRuleLine)) = Len(doc.tables)
            /\ [r \in 1..Len(rows) |-> Len(CellsOfLine(rows[r]))]
                   = RowWidths(doc.tables, 1)

\* every source text is held by an output paragraph, in the source's order
RECURSIVE MapsInOrder(_, _, _, _)
MapsInOrder(src, i, out, from) ==
    IF i > Len(src) THEN TRUE
    ELSE \E k \in from..Len(out) :
            /\ Contains(out[k].text, src[i])
            /\ MapsInOrder(src, i + 1, out, k)

\* C12: extracting a .docx with convert_file_to_markdown and writing the
\* result back with the tier-2 fallback (split on blank lines) gives a
\* document in which the text of every non-empty source paragraph appears,
\* in the original order, each inside one output paragraph.
C12_RoundTripKeepsParagraphs ==
    (pc = "written_back" /\ ~rendered.raised) =>
        /\ rendered.path \in DOMAIN files
        /\ files[rendered.path].kind = "docx"
        /\ MapsInOrder(SelectSeq(ParagraphTextsOf(files[customer_filepath]),
                                 LAMBDA t : Strip(t) # <<>>),
                       1, files[rendered.path].paragraphs, 1)

\* what a sheet should give: its header, then for every row which of its
\* cells are empty
RECURSIVE SheetsShape(_, _)
SheetsShape(sheets, i) ==
    IF i > Len(sheets) THEN <<>>
    ELSE << <<"##", SP, "Sheet:", SP, sheets[i].name>> >>
         \o [r \in 1..Len(sheets[i].rows) |->
                [c \in 1..Len(sheets[i].rows[r]) |-> sheets[i].rows[r][c] = <<>>]]
         \o SheetsShape(sheets, i + 1)

IsSheetHeader(line) == IsPrefix(<<"##", SP, "Sheet:">>, line)

\* C14: for an .xlsx with S sheets convert_file_to_markdown emits S headers
\* "## Sheet: <name>", each followed by a grid with as many rows as the
\* sheet has, the header row included, and every empty cell is rendered as
\* the empty string.
C14_SheetsRowsAndEmptyCells ==
    XlsxExtracted =>
        LET lines == SelectSeq(Split(conversion, <<NL>>),
                               LAMBDA l : IsSheetHeader(l) \/ IsRowLine(l))
        IN  [k \in 1..Len(lines) |->
                IF IsSheetHeader(lines[k]) THEN lines[k]
                ELSE [c \in 1..Len(CellsOfLine(lines[k])) |->
                         CellsOfLine(lines[k])[c] = <<>>]]
            = SheetsShape(files[customer_filepath].sheets, 1)

StartsWithHeading(name) == name # <<>> /\ name[1] = "Heading"

\* C15: a paragraph is rendered as a heading (level times "#", a space, the
\* text) exactly when its style name starts with "Heading", and as its text
\* alone otherwise; the level is between 1 and 6, is k for the style
\* "Heading k" with k in 1..6, and is 1 when the style name does not end in
\* a digit.
C15_HeadingLevels ==
    (DocxExtracted /\ ~ParseRaised) =>
        LET ps == files[customer_filepath].paragraphs
        IN  \E lv \in [1..Len(ps) -> 1..6] :
               /\ \A i \in 1..Len(ps) :
                     /\ \A k \in 1..6 :
                           ps[i].style = <<"Heading", SP, ToString(k)>> => lv[i] = k
                     /\ (StartsWithHeading(ps[i].style)
                            /\ ps[i].style[Len(ps[i].style)] \notin Digits) => lv[i] = 1
               /\ IsPrefix(Join([i \in 1..Len(ps) |->
                                    IF StartsWithHeading(ps[i].style)
                                    THEN [j \in 1..lv[i] |-> "#"] \o <<SP>> \o ps[i].text
                                    ELSE ps[i].text],
                                <<NL, NL>>),
                           conversion)

C15_Witness ==
    /\ pc = "extracted"
    /\ files[customer_filepath].kind = "docx"
    /\ ParagraphTextsOf(files[customer_filepath]) = << <<"A">>, <<"A">> >>
    /\ files[customer_filepath].paragraphs[1].style = <<"Heading", SP, "7">>
    /\ files[customer_filepath].paragraphs[2].style = <<"Heading", SP, "3">>
    /\ conversion = <<"#", SP, "A", NL, NL, "#", "#", "#", SP, "A">>

====
